---- MODULE Spec2Model ----
(***************************************************************************)
(* Model of the pcfBPMN control (src/pcfBPMN/index.ts): a lifecycle        *)
(* adapter between a host form (init / updateView / getOutputs / destroy)  *)
(* and an embedded bpmn-js Modeler (createDiagram / importXML / saveXML    *)
(* and the 'element.changed' event).                                       *)
(*                                                                         *)
(* The Modeler is a third-party library.  Its calls are asynchronous: a    *)
(* call puts an operation in flight (pending) and a later step settles it. *)
(* The adapter awaits none of them in init and awaits each one separately  *)
(* elsewhere, so operations in flight settle in any order.                 *)
(***************************************************************************)
EXTENDS Naturals, FiniteSets

\* ------------------------------------------------------------------ bounds
MaxEvents == 2    \* 'element.changed' events the editor emits
MaxUpdates == 1   \* updateView calls the host makes
MaxGets == 1      \* getOutputs calls the host makes

\* ------------------------------------------------------- diagrams and text
\* A diagram is what the editor holds: the document it was loaded from
\* (base) and the revision the user's edits have brought it to.
NoDiag == [base |-> "none", rev |-> 0]
DefaultDiagram == [base |-> "Default", rev |-> 0]
HostDiagrams == {[base |-> "A", rev |-> 0]}

\* A document text: its kind ("undefined", "empty", "bad" = text the editor
\* cannot import, "xml"), the diagram it describes and its layout.
Undef == [kind |-> "undefined", diag |-> NoDiag, fmt |-> "none"]
EmptyText == [kind |-> "empty", diag |-> NoDiag, fmt |-> "none"]
BadText == [kind |-> "bad", diag |-> NoDiag, fmt |-> "raw"]
Xml(d, f) == [kind |-> "xml", diag |-> d, fmt |-> f]

\* The values context.parameters.bpmnXML.raw can carry.
RawInputs ==
  {Undef, EmptyText, BadText} \cup {Xml(d, "raw") : d \in HostDiagrams}

\* JavaScript truthiness of a string-or-undefined value.
Truthy(t) == t.kind \notin {"undefined", "empty"}

\* importXML succeeds on well-formed BPMN XML only.
Importable(t) == t.kind = "xml"

\* The diagram importXML loads from a text.
Parse(t) == t.diag

\* The text saveXML({ format: true }) produces for a diagram.
Ser(d) == Xml(d, "formatted")

VARIABLES
  phase,        \* "constructed", "ready" (init returned), "destroyed"
  _context,     \* the raw field text of the context kept by init
  _bpmnXML,     \* the cached Document Text
  modelers,     \* number of Modeler instances constructed
  listeners,    \* number of 'element.changed' listeners registered
  diagram,      \* the diagram the editor holds and displays
  pending,      \* editor operations in flight
  nextId,       \* identity of the next operation
  nEvents,      \* 'element.changed' events emitted
  nEdits,       \* of which: events that changed the diagram
  nUpdates,     \* updateView calls
  nGets,        \* getOutputs calls
  nNotify,      \* _notifyOutputChanged invocations
  nSaveOk,      \* serializations that resolved with a text
  nSaveEmpty,   \* serializations that resolved without a text
  nSaveFail,    \* serializations that rejected
  logged,       \* console.error calls
  unhandled,    \* promise rejections no handler caught
  lastSaved,    \* text of the most recent serialization that resolved
  seenAtNotify, \* what getOutputs returns inside the latest notifier call
  lastOutput,   \* value the latest getOutputs call returned
  earlySave,    \* a change event fired before init's work had settled
  notifiedIn    \* the phase in which the latest notifier call was made

vars == <<phase, _context, _bpmnXML, modelers, listeners, diagram, pending,
          nextId, nEvents, nEdits, nUpdates, nGets, nNotify, nSaveOk,
          nSaveEmpty, nSaveFail, logged, unhandled, lastSaved, seenAtNotify,
          lastOutput, earlySave, notifiedIn>>

adapterVars == <<phase, _context, _bpmnXML, modelers, listeners>>
counters == <<nEvents, nEdits, nUpdates, nGets, nNotify, nSaveOk,
              nSaveEmpty, nSaveFail, logged, unhandled>>
history == <<lastSaved, seenAtNotify, lastOutput, earlySave, notifiedIn>>

\* An operation in flight: by names the code that started it ("init",
\* "updateView", "listener"); handled says whether its rejection reaches a
\* catch block of the adapter (the call was awaited inside try/catch).
\* ev and quiet record the moment of the call: the change events emitted
\* so far, and whether nothing else was in flight.
Op(i, k, a, b, h) ==
  [id |-> i, kind |-> k, arg |-> a, by |-> b, handled |-> h,
   ev |-> nEvents, quiet |-> (pending = {})]

\* The serializations in flight.
SavesInFlight == {op \in pending : op.kind = "save"}

\* The operations init started that have not settled.
InitWork == {op \in pending : op.by = "init"}

\* ------------------------------------------------------------------- Init
\* The state after the (empty) constructor.
Init ==
  /\ phase = "constructed"
  /\ _context = Undef
  /\ _bpmnXML = Undef
  /\ modelers = 0
  /\ listeners = 0
  /\ diagram = NoDiag
  /\ pending = {}
  /\ nextId = 1
  /\ nEvents = 0 /\ nEdits = 0 /\ nUpdates = 0 /\ nGets = 0
  /\ nNotify = 0 /\ nSaveOk = 0 /\ nSaveEmpty = 0 /\ nSaveFail = 0
  /\ logged = 0 /\ unhandled = 0
  /\ lastSaved = Undef
  /\ seenAtNotify = Undef
  /\ lastOutput = Undef
  /\ earlySave = FALSE
  /\ notifiedIn = "constructed"

\* ------------------------------------------------------------------- init
\* Variant: init caches the raw field text without testing it.
InitCache_Unguarded(raw) == raw

\* The text init caches: the raw field text when it is truthy.
InitCache(raw) == IF Truthy(raw) THEN raw ELSE _bpmnXML

\* Whether a rejection of init's importXML call reaches init's catch
\* block: the call is not awaited, so it does not.
InitImportHandled == FALSE

\* Variant: the listener is registered twice.
attachEventListeners_Twice == listeners + 2

\* attachEventListeners(): registers one 'element.changed' listener on the
\* editor's event bus; the result is the number of listeners registered.
attachEventListeners == listeners + 1

\* init(context, notifyOutputChanged, state, container)
init(raw) ==
  /\ phase = "constructed"
  /\ _context' = raw
  /\ modelers' = modelers + 1
  /\ _bpmnXML' = InitCache(raw)
  /\ pending' = pending
       \cup {Op(nextId, "create", Undef, "init", FALSE)}
       \cup (IF Truthy(raw)
               THEN {Op(nextId + 1, "import", raw, "init",
                        InitImportHandled)}
               ELSE {})
  /\ nextId' = nextId + 2
  /\ listeners' = attachEventListeners
  /\ phase' = "ready"
  /\ UNCHANGED <<diagram, counters, history>>

\* ------------------------------------------------------------ the editor
\* createDiagram settles: the editor holds the default diagram.
CreateDone(op) ==
  /\ op \in pending /\ op.kind = "create"
  /\ diagram' = DefaultDiagram
  /\ pending' = pending \ {op}
  /\ UNCHANGED <<adapterVars, nextId, counters, history>>

\* importXML resolves: the editor holds the diagram of the text.
ImportResolve(op) ==
  /\ op \in pending /\ op.kind = "import"
  /\ Importable(op.arg)
  /\ diagram' = Parse(op.arg)
  /\ pending' = pending \ {op}
  /\ UNCHANGED <<adapterVars, nextId, counters, history>>

\* importXML rejects: the editor keeps its diagram; the rejection is
\* logged by the catch block that awaited it, or reaches no handler.
ImportReject(op) ==
  /\ op \in pending /\ op.kind = "import"
  /\ ~Importable(op.arg)
  /\ pending' = pending \ {op}
  /\ logged' = IF op.handled THEN logged + 1 ELSE logged
  /\ unhandled' = IF op.handled THEN unhandled ELSE unhandled + 1
  /\ UNCHANGED <<adapterVars, diagram, nextId, nEvents, nEdits, nUpdates,
                 nGets, nNotify, nSaveOk, nSaveEmpty, nSaveFail, history>>

\* --------------------------------------------------- change propagation
\* The diagram after a change event: an edit brings it to a new revision,
\* a redraw notification leaves it as it is.
AfterEvent(edit) ==
  IF edit THEN [diagram EXCEPT !.rev = nEdits + 1] ELSE diagram

\* What saveXML, called on a diagram, will hand back if it resolves;
\* Undef when the editor holds no definitions (saveXML can only reject).
SaveArg(d) == IF d = NoDiag THEN Undef ELSE Ser(d)

\* attachEventListeners: the 'element.changed' listener runs up to its
\* await: every registered listener calls saveXML on the current diagram.
ElementChanged(edit) ==
  /\ phase # "constructed"
  /\ nEvents < MaxEvents
  /\ edit => diagram # NoDiag
  /\ diagram' = AfterEvent(edit)
  /\ pending' = pending \cup
       {Op(nextId + i, "save", SaveArg(AfterEvent(edit)), "listener", TRUE) :
          i \in 0 .. (listeners - 1)}
  /\ nextId' = nextId + listeners
  /\ nEvents' = nEvents + 1
  /\ nEdits' = IF edit THEN nEdits + 1 ELSE nEdits
  /\ earlySave' = (earlySave \/ InitWork # {})
  /\ UNCHANGED <<adapterVars, nUpdates, nGets, nNotify, nSaveOk, nSaveEmpty,
                 nSaveFail, logged, unhandled, lastSaved, seenAtNotify,
                 lastOutput, notifiedIn>>

\* Variant: the listener drops a result older than the cached text.
SaveCache_DropStale(xml) ==
  IF Truthy(xml) /\ Parse(xml).rev >= Parse(_bpmnXML).rev
    THEN xml ELSE _bpmnXML

\* Variant: the listener stores result.xml without testing it.
SaveCache_Unguarded(xml) == xml

\* The cache after saveXML resolved with result.xml = xml.
SaveCache(xml) == IF Truthy(xml) THEN xml ELSE _bpmnXML

\* Variant: the listener notifies the host whatever result.xml is.
SaveNotifies_Unguarded(xml) == TRUE

\* Whether the listener calls _notifyOutputChanged for result.xml = xml.
SaveNotifies(xml) == Truthy(xml)

\* getOutputs().bpmnXML for a cached text.
Outputs(cache) == IF Truthy(cache) THEN cache ELSE Undef

\* Variant: the notifier is invoked before the cache is assigned.
NotifySees_BeforeAssign(old, new) == Outputs(old)

\* What a getOutputs call made inside the notifier callback returns: the
\* cache is assigned before the notifier is invoked.
NotifySees(old, new) == Outputs(new)

\* saveXML resolves with result.xml = xml (the text, or none).
SaveResolve(op, xml) ==
  /\ op \in pending /\ op.kind = "save"
  /\ op.arg # Undef
  /\ xml \in {op.arg, EmptyText}
  /\ pending' = pending \ {op}
  /\ _bpmnXML' = SaveCache(xml)
  /\ nNotify' = IF SaveNotifies(xml) THEN nNotify + 1 ELSE nNotify
  /\ seenAtNotify' = IF SaveNotifies(xml)
                       THEN NotifySees(_bpmnXML, SaveCache(xml))
                       ELSE seenAtNotify
  /\ nSaveOk' = IF Truthy(xml) THEN nSaveOk + 1 ELSE nSaveOk
  /\ nSaveEmpty' = IF Truthy(xml) THEN nSaveEmpty ELSE nSaveEmpty + 1
  /\ lastSaved' = IF Truthy(xml) THEN xml ELSE lastSaved
  /\ notifiedIn' = IF SaveNotifies(xml) THEN phase ELSE notifiedIn
  /\ UNCHANGED <<phase, _context, modelers, listeners, diagram, nextId,
                 nEvents, nEdits, nUpdates, nGets, nSaveFail, logged,
                 unhandled, lastOutput, earlySave>>

\* Variant: the catch block logs the error and notifies the host.
SaveReject_Notifying(op) ==
  /\ op \in pending /\ op.kind = "save"
  /\ pending' = pending \ {op}
  /\ nSaveFail' = nSaveFail + 1
  /\ logged' = logged + 1
  /\ nNotify' = nNotify + 1
  /\ UNCHANGED <<adapterVars, diagram, nextId, nEvents, nEdits, nUpdates,
                 nGets, nSaveOk, nSaveEmpty, unhandled, history>>

\* saveXML rejects: the listener's catch block logs the error.
SaveReject(op) ==
  /\ op \in pending /\ op.kind = "save"
  /\ pending' = pending \ {op}
  /\ nSaveFail' = nSaveFail + 1
  /\ logged' = logged + 1
  /\ UNCHANGED <<adapterVars, diagram, nextId, nEvents, nEdits, nUpdates,
                 nGets, nNotify, nSaveOk, nSaveEmpty, unhandled, history>>

\* ------------------------------------------------------------- updateView
\* Variant: updateView imports the field text its context carries.
UpdateViewText_FromContext(ctx) == ctx

\* The text updateView hands to importXML.
UpdateViewText(ctx) == _bpmnXML

\* updateView(context), up to its await.
updateView(ctx) ==
  /\ phase = "ready"
  /\ nUpdates < MaxUpdates
  /\ pending' = pending \cup
       {Op(nextId, "import", UpdateViewText(ctx), "updateView", TRUE)}
  /\ nextId' = nextId + 1
  /\ nUpdates' = nUpdates + 1
  /\ UNCHANGED <<adapterVars, diagram, nEvents, nEdits, nGets, nNotify,
                 nSaveOk, nSaveEmpty, nSaveFail, logged, unhandled, history>>

\* ------------------------------------------------------------- getOutputs
\* Variant: getOutputs returns the field text of the context init kept.
getOutputs_FromContext ==
  /\ phase = "ready"
  /\ nGets < MaxGets
  /\ lastOutput' = Outputs(_context)
  /\ nGets' = nGets + 1
  /\ UNCHANGED <<adapterVars, diagram, pending, nextId, nEvents, nEdits,
                 nUpdates, nNotify, nSaveOk, nSaveEmpty, nSaveFail, logged,
                 unhandled, lastSaved, seenAtNotify, earlySave, notifiedIn>>

getOutputs ==
  /\ phase = "ready"
  /\ nGets < MaxGets
  /\ lastOutput' = Outputs(_bpmnXML)
  /\ nGets' = nGets + 1
  /\ UNCHANGED <<adapterVars, diagram, pending, nextId, nEvents, nEdits,
                 nUpdates, nNotify, nSaveOk, nSaveEmpty, nSaveFail, logged,
                 unhandled, lastSaved, seenAtNotify, earlySave, notifiedIn>>

\* ---------------------------------------------------------------- destroy
\* Variant: destroy removes the change listener.
destroy_RemovingListener ==
  /\ phase = "ready"
  /\ phase' = "destroyed"
  /\ listeners' = 0
  /\ UNCHANGED <<_context, _bpmnXML, modelers, diagram, pending,
                 nextId, counters, history>>

\* destroy(): an empty body.
destroy ==
  /\ phase = "ready"
  /\ phase' = "destroyed"
  /\ UNCHANGED <<_context, _bpmnXML, modelers, listeners, diagram, pending,
                 nextId, counters, history>>

\* ----------------------------------------------------------- specification
Next ==
  \/ \E raw \in RawInputs : init(raw)
  \/ \E op \in pending : CreateDone(op)
  \/ \E op \in pending : ImportResolve(op)
  \/ \E op \in pending : ImportReject(op)
  \/ \E edit \in BOOLEAN : ElementChanged(edit)
  \/ \E op \in pending : \E xml \in {op.arg, EmptyText} : SaveResolve(op, xml)
  \/ \E op \in pending : SaveReject(op)
  \/ \E ctx \in RawInputs : updateView(ctx)
  \/ getOutputs
  \/ destroy

Spec == Init /\ [][Next]_vars

TypeOK ==
  /\ phase \in {"constructed", "ready", "destroyed"}
  /\ _context \in RawInputs
  /\ Cardinality(pending) <= 2 + MaxEvents + MaxUpdates
  /\ \A op \in pending : op.kind \in {"create", "import", "save"}

\* ================================================================= claims

\* C1 (as stated): the cached Document Text is empty/undefined or the text
\* of the most recent successful serialization; no other text is ever
\* stored.
C1_CacheOnlyFromSerialization ==
  \/ ~Truthy(_bpmnXML)
  \/ nSaveOk > 0 /\ _bpmnXML = lastSaved

\* C1 (amended): the cached Document Text is the text of the most recent
\* successful serialization once one has succeeded; before that it is the
\* raw field text init received when that text is non-empty (importable or
\* not), and undefined otherwise.
C1_CacheProvenance ==
  \/ nSaveOk > 0 /\ _bpmnXML = lastSaved
  \/ nSaveOk = 0 /\ Truthy(_context) /\ _bpmnXML = _context
  \/ nSaveOk = 0 /\ ~Truthy(_context) /\ _bpmnXML = Undef

C1_Witness ==
  /\ phase = "ready"
  /\ nSaveOk = 0 /\ nSaveFail > 0 /\ nSaveEmpty > 0
  /\ Importable(_context) /\ _bpmnXML = _context

\* C2: every serialization that resolves with a text invokes the notifier
\* exactly once (notifier invocations always equal such serializations), a
\* getOutputs call made inside that invocation returns the new text, and
\* so does every getOutputs call until the next serialization resolves.
C2_NotifyOncePerSerialization ==
  [][/\ nNotify' = nSaveOk'
     /\ nSaveOk' # nSaveOk =>
          /\ nSaveOk' = nSaveOk + 1
          /\ nNotify' = nNotify + 1
          /\ seenAtNotify' = lastSaved'
          /\ Outputs(_bpmnXML') = lastSaved'
     /\ (nGets' # nGets /\ nSaveOk > 0) => lastOutput' = lastSaved]_vars

C2_Witness ==
  /\ nSaveOk = 2 /\ nNotify = 2
  /\ nGets > 0 /\ lastOutput = lastSaved
  /\ seenAtNotify = lastSaved

\* C3: when a serialization rejects, the listener catches and logs the
\* failure, the notifier is not invoked and the cached Document Text keeps
\* its value, whatever else is in flight.
C3_SaveFailureLeavesCache ==
  [][nSaveFail' # nSaveFail =>
       /\ nNotify' = nNotify
       /\ _bpmnXML' = _bpmnXML
       /\ logged' = logged + 1
       /\ unhandled' = unhandled]_vars

C3_Witness ==
  /\ nSaveFail > 0 /\ nNotify = 0
  /\ Truthy(_bpmnXML)
  /\ \E op \in pending : op.kind = "save"

\* C4 (as stated): after init with an empty or undefined field text, once
\* init's work has settled and with no user edit, getOutputs().bpmnXML is
\* a non-empty text.
C4_EmptyInputYieldsDefaultText ==
  (phase # "constructed" /\ ~Truthy(_context) /\ InitWork = {} /\ nEdits = 0)
    => Truthy(Outputs(_bpmnXML))

\* C4 (amended): after init with an empty or undefined field text,
\* getOutputs().bpmnXML is undefined until a serialization started by a
\* change event has resolved with a text; from then on it is the non-empty
\* text of the most recent such serialization, which is the default
\* diagram's as long as no user edit has been made.
C4_EmptyInputUndefinedUntilSaved ==
  (phase # "constructed" /\ ~Truthy(_context)) =>
    /\ nSaveOk = 0 => Outputs(_bpmnXML) = Undef
    /\ nSaveOk > 0 => Outputs(_bpmnXML) = lastSaved /\ Truthy(lastSaved)
    /\ (nSaveOk > 0 /\ nEdits = 0) => Outputs(_bpmnXML) = Ser(DefaultDiagram)

C4_Witness ==
  /\ phase = "ready" /\ _context = EmptyText
  /\ pending = {} /\ diagram = DefaultDiagram
  /\ nEvents = 0 /\ nGets > 0 /\ lastOutput = Undef

\* C5: after init with a field text the editor cannot import, once init's
\* work has settled the editor displays the default diagram (no user edit
\* made) and the import failure was caught by the adapter, not left as an
\* unhandled rejection.
C5_BadInputCaught ==
  (phase # "constructed" /\ Truthy(_context) /\ ~Importable(_context)
     /\ InitWork = {}) =>
    /\ nEdits = 0 => diagram = DefaultDiagram
    /\ unhandled = 0

\* C6: after init with a field text the editor cannot import, getOutputs
\* never returns that text, and once init's work has settled (no user
\* edit made) it returns the serialization of the default diagram.
C6_BadInputNotCached ==
  (phase # "constructed" /\ Truthy(_context) /\ ~Importable(_context)) =>
    /\ Outputs(_bpmnXML) # _context
    /\ (InitWork = {} /\ nEdits = 0) =>
         Outputs(_bpmnXML) = Ser(DefaultDiagram)

\* C7: updateView hands the cached Document Text, whatever its context
\* carries, to importXML inside try/catch; the call leaves the cache, the
\* editor and the notifier count as they are, and when that import settles
\* the editor holds the diagram of the text cached at the call or (on
\* failure) the diagram it held, the cache and the notifier count again
\* unchanged.
C7_UpdateViewImportsCache ==
  [][/\ nUpdates' # nUpdates =>
          /\ \E op \in pending' :
               /\ op \notin pending
               /\ pending' = pending \cup {op}
               /\ op.kind = "import" /\ op.arg = _bpmnXML /\ op.handled
          /\ _bpmnXML' = _bpmnXML
          /\ nNotify' = nNotify
          /\ diagram' = diagram
     /\ \A op \in pending :
          (op.by = "updateView" /\ op \notin pending') =>
             /\ _bpmnXML' = _bpmnXML
             /\ nNotify' = nNotify
             /\ unhandled' = unhandled
             /\ diagram' = IF Importable(op.arg) THEN Parse(op.arg)
                           ELSE diagram]_vars

C7_Witness ==
  /\ nUpdates > 0 /\ nSaveOk > 0
  /\ Importable(_context) /\ Parse(_context) # diagram
  /\ diagram = Parse(_bpmnXML)
  /\ \A op \in pending : op.by # "updateView"

\* C8: an updateView call made when nothing is in flight, and settled
\* with no change event in between, leaves the diagram the editor displays
\* and the value getOutputs returns as they were.
C8_UpdateViewIdempotent ==
  [][\A op \in pending :
       (op.by = "updateView" /\ op.quiet /\ op.ev = nEvents
          /\ pending = {op} /\ pending' = {}) =>
         /\ diagram' = diagram
         /\ Outputs(_bpmnXML') = Outputs(_bpmnXML)]_vars

C10_RoundTrip ==
  (/\ Importable(_context) /\ pending = {}
   /\ nUpdates = 0 /\ nEdits = 0 /\ ~earlySave
   /\ nEvents = 1 /\ nSaveOk = 1) =>
     Parse(Outputs(_bpmnXML)) = Parse(_context)

\* C11: no import or serialize failure escapes the adapter: every
\* rejection is caught by a catch block of the adapter, none is left as an
\* unhandled (asynchronous) failure, whatever the input text and the
\* outcome of the editor's operations.
C11_NoFailureEscapes == unhandled = 0

\* C12: no serialization is dropped or coalesced (every change event has
\* its own serialization, in flight or settled), each one that resolves
\* with a text invokes the notifier, and once none is in flight the cached
\* Document Text is the text of the one that resolved last, whatever the
\* order of the events.
C12_LastWriterWins ==
  phase # "constructed" =>
    /\ Cardinality(SavesInFlight) + nSaveOk + nSaveEmpty + nSaveFail
         = nEvents
    /\ nNotify = nSaveOk
    /\ (SavesInFlight = {} /\ nSaveOk > 0) => _bpmnXML = lastSaved

C12_Witness ==
  /\ pending = {}
  /\ nEdits = 2 /\ nSaveOk = 2 /\ nNotify = 2
  /\ diagram.rev = 2
  /\ Parse(_bpmnXML).rev = 1 /\ _bpmnXML = lastSaved

\* C13 (as stated): notifications reach the host in the order of the
\* change events:
\* when a serialization resolves with a text (all serializations
\* succeeding), the serializations of all later events are still in
\* flight, none of them has notified the host before.
C13_NotifyInEventOrder ==
  [][\A op \in SavesInFlight :
       (op \notin pending' /\ nNotify' # nNotify
          /\ nSaveFail = 0 /\ nSaveEmpty = 0) =>
         Cardinality({o \in SavesInFlight : o.ev > op.ev})
           = nEvents - (op.ev + 1)]_vars

\* C13 (amended): the notification and the cache update of a change event
\* happen when its own serialization resolves with a text, whatever other
\* serializations are in flight, so notifications reach the host in the
\* order the serializations resolve, which need not be the order of the
\* events.
C13_NotifyInResolveOrder ==
  [][\A op \in SavesInFlight :
       (op \notin pending' /\ nSaveOk' # nSaveOk) =>
         /\ pending' = pending \ {op}
         /\ nNotify' = nNotify + 1
         /\ _bpmnXML' = op.arg
         /\ seenAtNotify' = op.arg]_vars

C13_Witness ==
  /\ nEvents = 2 /\ nEdits = 2
  /\ nSaveOk = 1 /\ nNotify = 1 /\ nSaveFail = 0 /\ nSaveEmpty = 0
  /\ \E op \in SavesInFlight : op.ev = 0 /\ Parse(op.arg).rev = 1
  /\ Parse(_bpmnXML).rev = 2

\* C14: after init with an importable field text T, once createDiagram and
\* importXML(T) have both settled (nothing else having changed the
\* editor), the editor displays the diagram of T.
C14_InitEndsOnInput ==
  (/\ Importable(_context) /\ InitWork = {}
   /\ phase # "constructed" /\ nEvents = 0 /\ nUpdates = 0) =>
     diagram = Parse(_context)

\* C15: destroy changes neither the cached text, the editor, the listener
\* registration nor the operations in flight; after destroy a change
\* event still starts a serialization, and a serialization that resolves
\* with a text still updates the cache and invokes the notifier.
C15_DestroyCancelsNothing ==
  [][/\ (phase = "ready" /\ phase' = "destroyed") =>
          UNCHANGED <<_bpmnXML, modelers, listeners, diagram, pending,
                      nNotify>>
     /\ (phase = "destroyed" /\ nEvents' # nEvents) =>
          \E op \in SavesInFlight' :
            op \notin pending /\ pending' = pending \cup {op}
     /\ (phase = "destroyed" /\ nSaveOk' # nSaveOk) =>
          /\ nNotify' = nNotify + 1
          /\ notifiedIn' = "destroyed"
          /\ _bpmnXML' = lastSaved']_vars

C15_Witness ==
  /\ phase = "destroyed" /\ notifiedIn = "destroyed"
  /\ nEvents = 2 /\ nSaveOk = 2
  /\ _bpmnXML = Ser(diagram)

\* C16: from the moment init returns there is exactly one editor and
\* exactly one registered change listener, whatever happens afterwards,
\* and every change event has started exactly one serialization.
C16_OneEditorOneListener ==
  phase # "constructed" =>
    /\ modelers = 1
    /\ listeners = 1
    /\ Cardinality(SavesInFlight) + nSaveOk + nSaveEmpty + nSaveFail
         = nEvents

C16_Witness ==
  /\ phase = "destroyed"
  /\ nEvents = 2 /\ nUpdates > 0 /\ nGets > 0
  /\ Cardinality(SavesInFlight) = 2
  /\ modelers = 1 /\ listeners = 1

\* C17: whenever nothing is in flight and a serialization has resolved
\* with a text, the cached Document Text is the serialization of the
\* diagram the editor displays.
C17_CacheMatchesEditor ==
  (pending = {} /\ nSaveOk > 0) => _bpmnXML = Ser(diagram)

\* C18: a serialization that resolves without a text leaves the cached
\* text as it is and does not invoke the notifier; the cache is never the
\* empty string and getOutputs never returns it.
C18_EmptyResultIgnored ==
  [][/\ nSaveEmpty' # nSaveEmpty =>
          /\ _bpmnXML' = _bpmnXML
          /\ nNotify' = nNotify
          /\ seenAtNotify' = seenAtNotify
     /\ _bpmnXML' # EmptyText
     /\ seenAtNotify' # EmptyText
     /\ lastOutput' # EmptyText]_vars

C18_Witness ==
  /\ nSaveEmpty > 0 /\ nSaveOk > 0 /\ nNotify = nSaveOk
  /\ _bpmnXML = lastSaved
  /\ nGets > 0 /\ lastOutput = lastSaved

====
